---- MODULE Spec2Model ----
(***************************************************************************)
(* Flight integrator of the SkyBound simulator (Plane.useFrame) and the    *)
(* App state it reads (controls, selected aircraft) and writes             *)
(* (flightData).                                                            *)
(*                                                                         *)
(* JavaScript numbers are modelled as decimal fixed-point integers with    *)
(* SCALE units per 1.0 and round-to-nearest after every multiplication     *)
(* and division, so that rounding error exists in the model as it does in  *)
(* the program's doubles (at a coarser grain).                             *)
(***************************************************************************)
EXTENDS Integers, Sequences, FiniteSets, TLC

\* ------------------------------------------------------------------------
\* Fixed-point arithmetic (the model of the JavaScript number operations)
\* ------------------------------------------------------------------------

\* Units per 1.0; also the limb base of the wide products below.
SCALE == 100 * 100

Abs(a) == IF a < 0 THEN -a ELSE a

Sgn(a) == IF a < 0 THEN -1 ELSE IF a > 0 THEN 1 ELSE 0

Min(a, b) == IF a < b THEN a ELSE b

Max(a, b) == IF a > b THEN a ELSE b

\* a * b of two non-negative fixed-point numbers, rounded to nearest, computed
\* limb by limb so that no intermediate product leaves the 32-bit range.
MulAbs(a, b) ==
  LET ah == a \div SCALE
      al == a % SCALE
      bh == b \div SCALE
      bl == b % SCALE
  IN  ah * bh * SCALE + ah * bl + al * bh + (al * bl + SCALE \div 2) \div SCALE

\* a * b (the * of part_001), sign-symmetric.
\* Small factors are multiplied directly.
Mul(a, b) ==
  IF a = 0 \/ b = 0 THEN 0
  ELSE IF a > -40000 /\ a < 40000 /\ b > -40000 /\ b < 40000
  THEN LET p == a * b
       IN  IF p < 0 THEN -((SCALE \div 2 - p) \div SCALE)
           ELSE (p + SCALE \div 2) \div SCALE
  ELSE Sgn(a) * Sgn(b) * MulAbs(Abs(a), Abs(b))

\* a / b of two non-negative fixed-point numbers, b > 0, rounded to nearest.
\* The fraction is divided out two decimal digits at a time, again for the range.
DivAbs(a, b) ==
  LET q  == a \div b
      r  == a % b
      d1 == (r * 100) \div b
      r1 == (r * 100) % b
  IN  q * SCALE + d1 * 100 + (r1 * 100 + b \div 2) \div b

\* a / b (the / of part_001), sign-symmetric.
Div(a, b) == Sgn(a) * Sgn(b) * DivAbs(Abs(a), Abs(b))

\* An integer (a throttle percentage, a flap notch, an engine index) as a number.
ToFix(n) == n * SCALE

\* A non-negative integer below SCALE^4 as the pair <<high, low>> of limbs of
\* base SCALE^2: the square of a fixed-point number does not fit 32 bits.
WideSq(a) ==
  LET a1  == a \div SCALE
      a0  == a % SCALE
      mid == 2 * a1 * a0
      lo  == (mid % SCALE) * SCALE + a0 * a0
  IN  <<a1 * a1 + mid \div SCALE + lo \div (SCALE * SCALE), lo % (SCALE * SCALE)>>

WideAdd(x, y) ==
  LET lo == x[2] + y[2]
  IN  <<x[1] + y[1] + lo \div (SCALE * SCALE), lo % (SCALE * SCALE)>>

WideLeq(x, y) == x[1] < y[1] \/ (x[1] = y[1] /\ x[2] <= y[2])

\* The largest r in lo..hi with r*r <= n (n wide), by bisection.
RECURSIVE SqrtBisect(_, _, _)
SqrtBisect(lo, hi, n) ==
  IF lo >= hi THEN lo
  ELSE LET mid == (lo + hi + 1) \div 2
       IN  IF WideLeq(WideSq(mid), n) THEN SqrtBisect(mid, hi, n)
           ELSE SqrtBisect(lo, mid - 1, n)

\* ------------------------------------------------------------------------
\* three.js Vector3
\* ------------------------------------------------------------------------

Vec(x, y, z) == <<x, y, z>>

ZeroVec == <<0, 0, 0>>

VAdd(a, b) == <<a[1] + b[1], a[2] + b[2], a[3] + b[3]>>

VScale(a, s) == <<Mul(a[1], s), Mul(a[2], s), Mul(a[3], s)>>

\* The integer square root of n > 0 by Newton's iteration from x >= sqrt(n).
RECURSIVE SqrtNewton(_, _)
SqrtNewton(x, n) ==
  LET y == (x + n \div x) \div 2
  IN  IF y >= x THEN x ELSE SqrtNewton(y, n)

\* Vector3.length(): sqrt(x*x + y*y + z*z), rounded to nearest (the root of
\* four times the sum, halved). Short vectors are squared directly, long ones wide.
Length(a) ==
  LET m == Max(Abs(a[1]), Max(Abs(a[2]), Abs(a[3])))
  IN  IF m = 0 THEN 0
      ELSE IF m < 13000
      THEN (SqrtNewton(4 * m, 4 * (a[1] * a[1] + a[2] * a[2] + a[3] * a[3])) + 1) \div 2
      ELSE LET n  == WideAdd(WideSq(Abs(a[1])),
                             WideAdd(WideSq(Abs(a[2])), WideSq(Abs(a[3]))))
               n4 == WideAdd(WideAdd(n, n), WideAdd(n, n))
           IN  (SqrtBisect(2 * m, 4 * m, n4) + 1) \div 2

\* normalize() that gives the zero vector a direction instead of leaving it zero.
NormalizeZeroToAxis(a) ==
  LET len == Length(a)
  IN  IF len = 0 THEN <<0, 0, SCALE>> ELSE <<Div(a[1], len), Div(a[2], len), Div(a[3], len)>>

\* Vector3.normalize(): divideScalar(length() || 1), so the zero vector stays zero.
Normalize(a) ==
  LET len == Length(a)
      d   == IF len = 0 THEN SCALE ELSE len
  IN  <<Div(a[1], d), Div(a[2], d), Div(a[3], d)>>

\* Vector3.lerp(v, alpha): this += (v - this) * alpha.
VLerp(a, b, alpha) ==
  <<a[1] + Mul(b[1] - a[1], alpha),
    a[2] + Mul(b[2] - a[2], alpha),
    a[3] + Mul(b[3] - a[3], alpha)>>

\* ------------------------------------------------------------------------
\* Math.sin / Math.cos and three.js Quaternion
\* ------------------------------------------------------------------------

\* pi in fixed point.
PiFix == 31416

\* An angle reduced to (-pi, pi].
WrapAngle(a) ==
  LET r == a % (2 * PiFix)
  IN  IF r > PiFix THEN r - 2 * PiFix ELSE r

\* sin on [-pi/2, pi/2]: x - x^3/3! + x^5/5! - x^7/7! + x^9/9!, in Horner form.
SinSeries(x) ==
  LET x2 == Mul(x, x)
      t4 == SCALE - Mul(x2, SCALE \div 72)
      t3 == SCALE - Mul(Mul(x2, t4), SCALE \div 42)
      t2 == SCALE - Mul(Mul(x2, t3), SCALE \div 20)
      t1 == SCALE - Div(Mul(x2, t2), ToFix(6))
  IN  Mul(x, t1)

\* cos on [0, pi/2]: 1 - x^2/2! + x^4/4! - x^6/6! + x^8/8! - x^10/10!.
CosSeries(x) ==
  LET x2 == Mul(x, x)
      t5 == SCALE - Div(x2, ToFix(90))
      t4 == SCALE - Div(Mul(x2, t5), ToFix(56))
      t3 == SCALE - Div(Mul(x2, t4), ToFix(30))
      t2 == SCALE - Div(Mul(x2, t3), ToFix(12))
  IN  SCALE - Div(Mul(x2, t2), ToFix(2))

\* Math.sin.
Sin(a) ==
  LET x == WrapAngle(a)
  IN  IF x > PiFix \div 2 THEN SinSeries(PiFix - x)
      ELSE IF x < -(PiFix \div 2) THEN SinSeries(-PiFix - x)
      ELSE SinSeries(x)

\* Math.cos.
Cos(a) ==
  LET x == Abs(WrapAngle(a))
  IN  IF x > PiFix \div 2 THEN -CosSeries(PiFix - x) ELSE CosSeries(x)

\* Quaternions are <<x, y, z, w>>.
IdentityQuat == <<0, 0, 0, SCALE>>

\* Quaternion.setFromAxisAngle(axis, angle); the axis is taken to be normalized.
SetFromAxisAngle(axis, angle) ==
  LET half == Div(angle, ToFix(2))
      s    == Sin(half)
  IN  <<Mul(axis[1], s), Mul(axis[2], s), Mul(axis[3], s), Cos(half)>>

\* Quaternion.multiply(b): this = this * b. No normalization.
QMul(a, b) ==
  <<Mul(a[1], b[4]) + Mul(a[4], b[1]) + Mul(a[2], b[3]) - Mul(a[3], b[2]),
    Mul(a[2], b[4]) + Mul(a[4], b[2]) + Mul(a[3], b[1]) - Mul(a[1], b[3]),
    Mul(a[3], b[4]) + Mul(a[4], b[3]) + Mul(a[1], b[2]) - Mul(a[2], b[1]),
    Mul(a[4], b[4]) - Mul(a[1], b[1]) - Mul(a[2], b[2]) - Mul(a[3], b[3])>>

\* Vector3.applyQuaternion(q): v + w*t + q x t with t = 2 * (q x v).
ApplyQuaternion(v, q) ==
  LET tx == 2 * (Mul(q[2], v[3]) - Mul(q[3], v[2]))
      ty == 2 * (Mul(q[3], v[1]) - Mul(q[1], v[3]))
      tz == 2 * (Mul(q[1], v[2]) - Mul(q[2], v[1]))
  IN  <<v[1] + Mul(q[4], tx) + Mul(q[2], tz) - Mul(q[3], ty),
        v[2] + Mul(q[4], ty) + Mul(q[3], tx) - Mul(q[1], tz),
        v[3] + Mul(q[4], tz) + Mul(q[1], ty) - Mul(q[2], tx)>>

\* x*x + y*y + z*z + w*w of a quaternion (1.0 for a unit quaternion).
QNormSq(q) == Mul(q[1], q[1]) + Mul(q[2], q[2]) + Mul(q[3], q[3]) + Mul(q[4], q[4])

\* ------------------------------------------------------------------------
\* Program constants (fixed point)
\* ------------------------------------------------------------------------

MAX_THRUST == 5000

GRAVITY == 800

LIFT_COEFFICIENT == 20

DRAG_COEFFICIENT == 5

ROTATION_SPEED == 200

MIN_TAKEOFF_SPEED == 8000

MAX_SPEED == 40000

\* position.y of a vehicle standing on the runway; the on-ground threshold.
GroundY == 6000

\* The brake acts below this position.y.
BrakeMaxY == 10000

\* speed.current *= 0.95 under brake.
BrakeFactor == 9500

\* velocity.multiplyScalar(0.995) on the ground.
GroundFriction == 9950

\* Drag added by the landing gear, and by each flap notch.
GearDrag == 10

FlapDrag == 20

\* Lift gained by each flap notch (0.3).
FlapLift == 3000

\* Math.min(speed / MIN_TAKEOFF_SPEED, 1.5).
AuthorityCap == 15000

\* rollAmt's factor 1.5.
RollGain == 15000

\* diffThrustFactor.
DiffThrustFactor == 5

\* Yaw rate factor on the ground (0.02) and share of the authority in the air (0.5).
GroundYawRate == 200

AirYawShare == 5000

\* Stability: velocity.lerp(targetVel, delta * 0.5) above speed 0.1.
StabilityGain == 5000

StabilityMinSpeed == 1000

\* Gear animation: lerp factor delta * 3, dead band 0.01.
GearRate == 30000

GearDeadBand == 100

\* AIRCRAFT_FLEET: the physics fields of each AircraftConfig.
AIRCRAFT_FLEET ==
  << [id |-> "skybound-mk1", thrustMult |-> 10000, liftMult |-> 10000, dragMult |-> 10000,
      turnSpeedMult |-> 10000, maxSpeedMult |-> 10000, engineCount |-> 1],
     [id |-> "raptor-x", thrustMult |-> 25000, liftMult |-> 8000, dragMult |-> 6000,
      turnSpeedMult |-> 18000, maxSpeedMult |-> 25000, engineCount |-> 2],
     [id |-> "titan-hauler", thrustMult |-> 8000, liftMult |-> 15000, dragMult |-> 18000,
      turnSpeedMult |-> 4000, maxSpeedMult |-> 7000, engineCount |-> 4],
     [id |-> "acro-z", thrustMult |-> 14000, liftMult |-> 11000, dragMult |-> 11000,
      turnSpeedMult |-> 25000, maxSpeedMult |-> 12000, engineCount |-> 1] >>

Fleet == {AIRCRAFT_FLEET[i] : i \in 1..Len(AIRCRAFT_FLEET)}

\* The controls App starts with, and restores on restart.
InitialControls ==
  [pitch |-> 0, roll |-> 0, yaw |-> 0, throttles |-> <<0, 0, 0, 0>>,
   brake |-> TRUE, flaps |-> 0, gear |-> TRUE]

\* The flightData App starts with, before any frame has reported.
InitialFlightData ==
  [position |-> <<0, 0, 0>>, rotation |-> <<0, 0, 0>>, velocity |-> 0, altitude |-> 0,
   throttles |-> <<0, 0, 0, 0>>, fuel |-> 100, isGearDown |-> TRUE, flapsValue |-> 0,
   brake |-> TRUE, pitchInput |-> 0, rollInput |-> 0, yawInput |-> 0]

\* Plane: speed.current, the ref the frame keeps its scalar speed in. It is
\* declared ahead of the other state because the frame steps name it.
VARIABLE speed

\* ------------------------------------------------------------------------
\* The steps of Plane.useFrame, in the order of the code
\* ------------------------------------------------------------------------

\* The side coefficient without the shift to -1..1: (i / (n - 1)) * 2.
SideFromZero(i, n) == Mul(Div(ToFix(i), ToFix(n - 1)), ToFix(2))

\* The side coefficient of engine i (0-based) of n > 1 engines: (i / (n - 1)) * 2 - 1.
Side(i, n) == Mul(Div(ToFix(i), ToFix(n - 1)), ToFix(2)) - SCALE

\* The throttle loop without the engineCount > 1 test around the yaw moment.
RECURSIVE ThrottleLoopAlwaysYaw(_, _, _, _)
ThrottleLoopAlwaysYaw(throttles, i, n, acc) ==
  IF i >= Len(throttles) THEN acc
  ELSE IF i >= n THEN ThrottleLoopAlwaysYaw(throttles, i + 1, n, acc)
  ELSE LET val  == ToFix(throttles[i + 1])
           side == Mul(Div(ToFix(i), ToFix(Max(1, n - 1))), ToFix(2)) - SCALE
       IN  ThrottleLoopAlwaysYaw(throttles, i + 1, n,
                                 <<acc[1] + val, acc[2] + Mul(side, val)>>)

\* The throttle loop without the i >= engineCount return: every entry is summed.
RECURSIVE ThrottleLoopAllEntries(_, _, _, _)
ThrottleLoopAllEntries(throttles, i, n, acc) ==
  IF i >= Len(throttles) THEN acc
  ELSE LET val == ToFix(throttles[i + 1])
           yaw == IF n > 1 THEN acc[2] + Mul(Side(i, n), val) ELSE acc[2]
       IN  ThrottleLoopAllEntries(throttles, i + 1, n, <<acc[1] + val, yaw>>)

\* controls.throttles.forEach: <<totalThrustPercent, yawMoment>> after the entries
\* from index i (0-based) on, starting from the accumulated acc.
RECURSIVE ThrottleLoop(_, _, _, _)
ThrottleLoop(throttles, i, n, acc) ==
  IF i >= Len(throttles) THEN acc
  ELSE IF i >= n THEN ThrottleLoop(throttles, i + 1, n, acc)
  ELSE LET val == ToFix(throttles[i + 1])
           tot == acc[1] + val
           yaw == IF n > 1 THEN acc[2] + Mul(Side(i, n), val) ELSE acc[2]
       IN  ThrottleLoop(throttles, i + 1, n, <<tot, yaw>>)

TotalThrustPercent(throttles, n) == ThrottleLoop(throttles, 0, n, <<0, 0>>)[1]

YawMoment(throttles, n) == ThrottleLoop(throttles, 0, n, <<0, 0>>)[2]

AvgThrottle(throttles, n) == Div(TotalThrustPercent(throttles, n), ToFix(Max(1, n)))

\* The brake test without the altitude limit: controls.brake alone.
BrakeActsAnyAltitude(ctl, pos) == ctl.brake

\* Whether the brake takes the thrust away: controls.brake && position.y < 1.0.
BrakeActs(ctl, pos) == ctl.brake /\ pos[2] < BrakeMaxY

ThrustVal(ctl, cfg, pos) ==
  IF BrakeActs(ctl, pos) THEN 0
  ELSE Mul(Mul(Div(AvgThrottle(ctl.throttles, cfg.engineCount), ToFix(100)), MAX_THRUST),
           cfg.thrustMult)

\* speed.current not overwritten at the start of the frame but averaged with
\* the value the previous frame left in the ref.
SpeedCurrentSmoothed(ctl, pos, vel) ==
  LET s == (speed + Length(vel)) \div 2
  IN  IF BrakeActs(ctl, pos) THEN Mul(s, BrakeFactor) ELSE s

\* speed.current as the forces see it: velocity.length(), times 0.95 under brake.
SpeedCurrent(ctl, pos, vel) ==
  IF BrakeActs(ctl, pos) THEN Mul(Length(vel), BrakeFactor) ELSE Length(vel)

\* delta * 60, the frame count the code scales angles, gravity and position by.
Ticks60(delta) == Mul(delta, ToFix(60))

GravityVector(delta) == <<0, -Mul(GRAVITY, Ticks60(delta)), 0>>

\* effectiveLift; the constant factors LIFT_COEFFICIENT * 1000 are multiplied first, so
\* that the fixed-point grain of liftFactor * 0.002 is not scaled up a thousandfold.
EffectiveLift(spd, ctl, cfg) ==
  LET maxSpeedForCalc == Mul(MAX_SPEED, cfg.maxSpeedMult)
      liftFactor == Mul(Div(spd, maxSpeedForCalc), SCALE + Mul(ToFix(ctl.flaps), FlapLift))
  IN  Max(0, Mul(Mul(Mul(liftFactor, Mul(LIFT_COEFFICIENT, ToFix(1000))), spd), cfg.liftMult))

LiftVector(up, spd, ctl, cfg, delta) == VScale(up, Mul(EffectiveLift(spd, ctl, cfg), delta))

DragVal(spd, ctl, cfg) ==
  Mul(Mul(Mul(spd, spd), DRAG_COEFFICIENT), cfg.dragMult)
    + (IF ctl.gear THEN GearDrag ELSE 0) + Mul(ToFix(ctl.flaps), FlapDrag)

\* The drag vector with the sign of dragVal lost: along the velocity.
DragVectorAlongVelocity(vel, spd, ctl, cfg) == VScale(Normalize(vel), DragVal(spd, ctl, cfg))

\* dragVector: the normalized velocity times -dragVal.
DragVector(vel, spd, ctl, cfg) == VScale(Normalize(vel), -DragVal(spd, ctl, cfg))

IsOnGround(pos) == pos[2] <= GroundY

\* The four velocity.current.add calls. Only the thrust is multiplied by delta here;
\* gravity and lift carry delta from their computation, the drag is added as it is.
AddForces(vel, thrustVector, gravityVector, liftVector, dragVector, delta) ==
  VAdd(VAdd(VAdd(VAdd(vel, VScale(thrustVector, delta)), gravityVector), liftVector),
       dragVector)

\* GroundVelocity without the velocity.y = 0 of the ground clamp.
GroundVelocityKeepsSink(vel, onGround) ==
  IF onGround THEN VScale(vel, GroundFriction) ELSE vel

\* The ground branch taken on every frame, whatever isOnGround.
GroundVelocityEveryFrame(vel, onGround) ==
  VScale(<<vel[1], IF vel[2] < 0 THEN 0 ELSE vel[2], vel[3]>>, GroundFriction)

\* if (isOnGround): no downward velocity, then rolling friction.
GroundVelocity(vel, onGround) ==
  IF onGround
  THEN VScale(<<vel[1], IF vel[2] < 0 THEN 0 ELSE vel[2], vel[3]>>, GroundFriction)
  ELSE vel

\* if (isOnGround) position.y = 0.6.
GroundPosition(pos, onGround) == IF onGround THEN <<pos[1], GroundY, pos[3]>> ELSE pos

\* The control authority without its cap: (speed / MIN_TAKEOFF_SPEED) taken as it is.
ControlAuthorityUncapped(spd, cfg) ==
  Mul(Mul(Div(spd, MIN_TAKEOFF_SPEED), ROTATION_SPEED), cfg.turnSpeedMult)

ControlAuthority(spd, cfg) ==
  Mul(Mul(Min(Div(spd, MIN_TAKEOFF_SPEED), AuthorityCap), ROTATION_SPEED), cfg.turnSpeedMult)

PitchAmt(ctl, authority, delta) == Mul(Mul(ToFix(ctl.pitch), authority), Ticks60(delta))

RollAmt(ctl, authority, delta) ==
  Mul(Mul(Mul(ToFix(-ctl.roll), authority), RollGain), Ticks60(delta))

TotalYawInput(ctl, yawMoment) == ToFix(-ctl.yaw) + Mul(yawMoment, DiffThrustFactor)

\* The yaw angle without the ground rate: the airspeed-scaled authority on every frame.
YawAmtAuthorityOnly(totalYawInput, onGround, authority, delta) ==
  Mul(Mul(totalYawInput, Mul(authority, AirYawShare)), Ticks60(delta))

YawAmt(totalYawInput, onGround, authority, delta) ==
  Mul(Mul(totalYawInput, IF onGround THEN GroundYawRate ELSE Mul(authority, AirYawShare)),
      Ticks60(delta))

\* The three rotations multiplied in the opposite order: roll, then yaw, then pitch.
ComposeRotationRollFirst(q, pitchQuat, yawQuat, rollQuat) ==
  QMul(QMul(QMul(q, rollQuat), yawQuat), pitchQuat)

\* quaternion.multiply(pitchQuat), .multiply(yawQuat), .multiply(rollQuat): the
\* product is stored as it comes out, without a normalize() call.
ComposeRotation(q, pitchQuat, yawQuat, rollQuat) ==
  QMul(QMul(QMul(q, pitchQuat), yawQuat), rollQuat)

\* The stability blend without the airborne test: above speed 0.1 on every frame.
StabilizeOnGroundToo(vel, forward, spd, onGround, delta) ==
  IF spd > StabilityMinSpeed
  THEN VLerp(vel, VScale(forward, spd), Mul(delta, StabilityGain))
  ELSE vel

\* Stability: in the air above speed 0.1 the velocity is drawn to forward * speed.
Stabilize(vel, forward, spd, onGround, delta) ==
  IF ~onGround /\ spd > StabilityMinSpeed
  THEN VLerp(vel, VScale(forward, spd), Mul(delta, StabilityGain))
  ELSE vel

\* position.add(velocity * delta * 60).
IntegratePosition(pos, vel, delta) == VAdd(pos, VScale(vel, Ticks60(delta)))

\* Euler.setFromQuaternion: the entries of the rotation matrix of q from which the
\* three angles are taken, as <<<<-m23, m33>>, m13, <<-m12, m11>>>> (x = atan2 of the
\* first pair, y = asin of the middle entry, z = atan2 of the last pair).
EulerFromQuaternion(q) ==
  LET x2 == 2 * q[1]
      y2 == 2 * q[2]
      z2 == 2 * q[3]
      m11 == SCALE - (Mul(q[2], y2) + Mul(q[3], z2))
      m12 == Mul(q[1], y2) - Mul(q[4], z2)
      m13 == Mul(q[1], z2) + Mul(q[4], y2)
      m23 == Mul(q[2], z2) - Mul(q[4], x2)
      m33 == SCALE - (Mul(q[1], x2) + Mul(q[2], y2))
  IN  << <<-m23, m33>>, m13, <<-m12, m11>> >>

\* MathUtils.lerp(x, y, t) = (1 - t) * x + t * y.
Lerp(x, y, t) == Mul(SCALE - t, x) + Mul(t, y)

\* The gear animation step of the frame.
GearStep(gp, ctl, delta) ==
  LET targetGearPos == IF ctl.gear THEN SCALE ELSE 0
  IN  IF Abs(gp - targetGearPos) > GearDeadBand
      THEN Lerp(gp, targetGearPos, Mul(delta, GearRate))
      ELSE gp

\* One run of the frame callback on (position, quaternion, velocity) with the
\* aircraft cfg, the controls ctl and the frame time delta: the locals it computes
\* and the state it leaves.
Frame(pos, q, vel, cfg, ctl, delta) ==
  LET forward   == ApplyQuaternion(<<0, 0, -SCALE>>, q)
      up        == ApplyQuaternion(<<0, SCALE, 0>>, q)
      right     == ApplyQuaternion(<<SCALE, 0, 0>>, q)
      yawMoment == YawMoment(ctl.throttles, cfg.engineCount)
      thrustVal == ThrustVal(ctl, cfg, pos)
      spd       == SpeedCurrent(ctl, pos, vel)
      thrustVector  == VScale(forward, thrustVal)
      gravityVector == GravityVector(delta)
      liftVector    == LiftVector(up, spd, ctl, cfg, delta)
      dragVector    == DragVector(vel, spd, ctl, cfg)
      isOnGround    == IsOnGround(pos)
      vel1 == AddForces(vel, thrustVector, gravityVector, liftVector, dragVector, delta)
      vel2 == GroundVelocity(vel1, isOnGround)
      pos1 == GroundPosition(pos, isOnGround)
      controlAuthority == ControlAuthority(spd, cfg)
      pitchAmt  == PitchAmt(ctl, controlAuthority, delta)
      rollAmt   == RollAmt(ctl, controlAuthority, delta)
      totalYawInput == TotalYawInput(ctl, yawMoment)
      yawAmt    == YawAmt(totalYawInput, isOnGround, controlAuthority, delta)
      q1   == ComposeRotation(q, SetFromAxisAngle(right, pitchAmt),
                              SetFromAxisAngle(up, yawAmt),
                              SetFromAxisAngle(forward, rollAmt))
      vel3 == Stabilize(vel2, forward, spd, isOnGround, delta)
      pos2 == IntegratePosition(pos1, vel3, delta)
  IN  [position |-> pos2, quaternion |-> q1, velocity |-> vel3, speed |-> spd,
       totalThrustPercent |-> TotalThrustPercent(ctl.throttles, cfg.engineCount),
       avgThrottle |-> AvgThrottle(ctl.throttles, cfg.engineCount),
       yawMoment |-> yawMoment, thrustVal |-> thrustVal, thrustVector |-> thrustVector,
       dragVal |-> DragVal(spd, ctl, cfg), dragVector |-> dragVector,
       isOnGround |-> isOnGround, controlAuthority |-> controlAuthority,
       pitchAmt |-> pitchAmt, rollAmt |-> rollAmt, yawAmt |-> yawAmt]

\* The FlightData the frame hands to onUpdate.
Telemetry(f, ctl) ==
  [position |-> f.position, rotation |-> EulerFromQuaternion(f.quaternion),
   velocity |-> f.speed, altitude |-> f.position[2], throttles |-> ctl.throttles,
   fuel |-> 100, isGearDown |-> ctl.gear, flapsValue |-> ctl.flaps, brake |-> ctl.brake,
   pitchInput |-> ctl.pitch, rollInput |-> ctl.roll, yawInput |-> ctl.yaw]

\* ------------------------------------------------------------------------
\* The throttle loop in IEEE-754 double arithmetic
\* ------------------------------------------------------------------------
\* The fixed-point grain above is 10^-4; the rounding of a JavaScript number is
\* 2^-53 relative. The yaw moment of the throttle loop is a sum of terms that
\* cancel, so it is modelled a second time bit for bit: a double is a sign and
\* a magnitude, the magnitude an integer count of 2^-DoubleFrac, rounded to
\* DoubleMant significant bits to nearest, ties to even, after every operation,
\* as the hardware does.

\* Significant bits of a double.
DoubleMant == 53

\* The magnitude is held in limbs of LimbBits bits, least significant first:
\* FracLimbs limbs of fraction and one limb of whole number (values below 2^15).
LimbBits == 15

FracLimbs == 4

Limbs == FracLimbs + 1

\* 2^e for a small e.
RECURSIVE Pow2(_)
Pow2(e) == IF e = 0 THEN 1 ELSE 2 * Pow2(e - 1)

LimbBase == Pow2(LimbBits)

\* Fraction bits held: every value of the loop is a multiple of 2^-DoubleFrac.
DoubleFrac == FracLimbs * LimbBits

BitZero == [j \in 1..Limbs |-> 0]

\* The magnitude of the whole number n (0 <= n < 2^15).
BitsOfInt(n) == [j \in 1..Limbs |-> IF j = Limbs THEN n ELSE 0]

\* Bit k of a magnitude, k = 1 the least significant.
Bit(a, k) == (a[((k - 1) \div LimbBits) + 1] \div Pow2((k - 1) % LimbBits)) % 2

\* The highest set bit of a magnitude, 0 for zero.
TopBit(a) ==
  LET on == {k \in 1..(Limbs * LimbBits) : Bit(a, k) = 1}
  IN  IF on = {} THEN 0 ELSE CHOOSE k \in on : \A j \in on : j <= k

RECURSIVE BitAddFrom(_, _, _, _, _)
BitAddFrom(a, b, j, carry, acc) ==
  IF j > Limbs THEN acc
  ELSE LET s == a[j] + b[j] + carry
       IN  BitAddFrom(a, b, j + 1, s \div LimbBase, Append(acc, s % LimbBase))

\* a + b on magnitudes.
BitAdd(a, b) == BitAddFrom(a, b, 1, 0, <<>>)

RECURSIVE BitSubFrom(_, _, _, _, _)
BitSubFrom(a, b, j, borrow, acc) ==
  IF j > Limbs THEN acc
  ELSE LET s == a[j] - b[j] - borrow
       IN  BitSubFrom(a, b, j + 1, IF s < 0 THEN 1 ELSE 0,
                      Append(acc, (s + LimbBase) % LimbBase))

\* a - b on magnitudes, for a >= b.
BitSub(a, b) == BitSubFrom(a, b, 1, 0, <<>>)

\* a < b on magnitudes.
BitLess(a, b) ==
  LET diff == {j \in 1..Limbs : a[j] # b[j]}
  IN  diff # {} /\ LET top == CHOOSE j \in diff : \A i \in diff : i <= j
                   IN  a[top] < b[top]

RECURSIVE BitTimesFrom(_, _, _, _, _)
BitTimesFrom(a, n, j, carry, acc) ==
  IF j > Limbs THEN acc
  ELSE LET s == a[j] * n + carry
       IN  BitTimesFrom(a, n, j + 1, s \div LimbBase, Append(acc, s % LimbBase))

\* n * a on magnitudes, for a whole number 0 <= n < 2^15.
BitTimes(a, n) == BitTimesFrom(a, n, 1, 0, <<>>)

\* Round a magnitude to DoubleMant significant bits, to nearest, ties to even;
\* sticky tells that the exact value lies above a by less than one unit of a.
RoundDouble(a, sticky) ==
  LET top  == TopBit(a)
      drop == top - DoubleMant
  IN  IF drop <= 0 THEN a
      ELSE LET whole == drop \div LimbBits
               part  == Pow2(drop % LimbBits)
               kept  == [j \in 1..Limbs |->
                           IF j <= whole THEN 0
                           ELSE IF j = whole + 1 THEN (a[j] \div part) * part
                           ELSE a[j]]
               ulp   == [j \in 1..Limbs |-> IF j = whole + 1 THEN part ELSE 0]
               rest  == sticky \/ \E k \in 1..(drop - 1) : Bit(a, k) = 1
               up    == Bit(a, drop) = 1 /\ (rest \/ Bit(a, drop + 1) = 1)
           IN  IF up THEN BitAdd(kept, ulp) ELSE kept

\* The double of the whole number n, negated if neg.
DoubleOfInt(n) == [neg |-> n < 0, mag |-> BitsOfInt(IF n < 0 THEN -n ELSE n)]

DoubleIsZero(x) == x.mag = BitZero

\* x + y in double arithmetic.
DoubleAdd(x, y) ==
  IF x.neg = y.neg THEN [neg |-> x.neg, mag |-> RoundDouble(BitAdd(x.mag, y.mag), FALSE)]
  ELSE IF BitLess(x.mag, y.mag)
       THEN [neg |-> y.neg, mag |-> RoundDouble(BitSub(y.mag, x.mag), FALSE)]
       ELSE [neg |-> x.neg /\ x.mag # y.mag,
             mag |-> RoundDouble(BitSub(x.mag, y.mag), FALSE)]

\* x * n in double arithmetic, for a whole number 0 <= n < 2^15.
DoubleTimes(x, n) == [neg |-> x.neg, mag |-> RoundDouble(BitTimes(x.mag, n), FALSE)]

\* The fraction limbs of r / m from limb j down, most significant first, as
\* <<limbs, last remainder>> (long division, 0 <= r < m < 2^15).
RECURSIVE DivideFrom(_, _, _, _)
DivideFrom(r, m, j, acc) ==
  IF j = 0 THEN <<acc, r>>
  ELSE DivideFrom((r * LimbBase) % m, m, j - 1, <<(r * LimbBase) \div m>> \o acc)

\* i / m in double arithmetic, for whole numbers 0 <= i and 0 < m.
DoubleDivide(i, m) ==
  LET frac == DivideFrom(i % m, m, FracLimbs, <<>>)
  IN  [neg |-> FALSE, mag |-> RoundDouble(Append(frac[1], i \div m), frac[2] # 0)]

\* side = (i / (engineCount - 1)) * 2 - 1 as the code computes it (line 85).
SideDouble(i, n) ==
  DoubleAdd(DoubleTimes(DoubleDivide(i, n - 1), 2), DoubleOfInt(-1))

\* yawMoment after the entries from index i (0-based) on: the forEach of lines
\* 76-90, yawMoment += side * val for every engine of a multi-engine aircraft.
RECURSIVE YawLoopDouble(_, _, _, _)
YawLoopDouble(throttles, i, n, yaw) ==
  IF i >= Len(throttles) THEN yaw
  ELSE IF i >= n \/ n <= 1 THEN YawLoopDouble(throttles, i + 1, n, yaw)
  ELSE YawLoopDouble(throttles, i + 1, n,
                     DoubleAdd(yaw, DoubleTimes(SideDouble(i, n), throttles[i + 1])))

YawMomentDouble(throttles, n) == YawLoopDouble(throttles, 0, n, DoubleOfInt(0))

\* ------------------------------------------------------------------------
\* State
\* ------------------------------------------------------------------------

VARIABLES
  config,        \* App: currentAircraft, the config prop of Plane
  controls,      \* App: the controls state, the controls prop of Plane
  flightData,    \* App: the flightData state, set by onUpdate
  position,      \* Plane: position.current
  quaternion,    \* Plane: quaternion.current
  velocity,      \* Plane: velocity.current
  gearPos,       \* Plane: the gear animation state
  showHangar,    \* App: the hangar overlay is open
  events,        \* the number of App events handled (keys, buttons, sliders)
  delta,         \* the frame time (seconds) of the latest frame of the render loop
  locals,        \* the locals the latest frame computed
  inputs,        \* history: the state, profile and controls the latest frame started from
  ticks,         \* the number of frames run
  everAirborne,  \* history: some frame has ended with position.y above the ground
  cameraMode,    \* App: the camera mode, the cameraMode prop of Plane
  resetKey,      \* App: the key of Plane, incremented by every restart
  atcMessages,   \* App: the ATC message log
  timers,        \* the pending setTimeout callbacks, in the order they were set
  now,           \* the time in milliseconds
  keyEvents      \* the number of keyboard events dispatched to the window

vars == <<config, controls, flightData, position, quaternion, velocity, speed, gearPos,
          showHangar, events, delta, locals, inputs, ticks, everAirborne,
          cameraMode, resetKey, atcMessages, timers, now, keyEvents>>

\* The ATC log and the timers that write to it.
atc == <<atcMessages, timers, now>>

\* ------------------------------------------------------------------------
\* Bounds of the model
\* ------------------------------------------------------------------------

\* Frames run in the free-input specifications.
MaxTicks == 3

\* Frames run in the full-throttle scenario.
ScenarioTicks == 300

\* A frame is run only from a speed of at most MaxVel (whole units), which keeps the
\* numbers of an uncapped delta within 32 bits.
MaxVel == 4

\* Frame times: 1/60 s and 1/120 s to the model's precision.
Dt60 == 167

Dt120 == 83

\* The frame times of the free-input specifications: zero, 1/60 s, and the long
\* frames (1 s, 5 s) a stalled render loop delivers, since delta has no cap.
DtSet == {0, Dt60, ToFix(1), ToFix(5)}

FullThrottles == <<100, 100, 100, 100>>

\* The controls the free-input specification switches between: parked (the
\* initial controls), take-off power with full flaps, an idle glide, a turn
\* on one engine, and full throttle against the brake.
InputSet ==
  { InitialControls,
    [pitch |-> 0, roll |-> 0, yaw |-> 0, throttles |-> FullThrottles,
     brake |-> FALSE, flaps |-> 2, gear |-> TRUE],
    [pitch |-> -1, roll |-> 0, yaw |-> 1, throttles |-> <<0, 0, 0, 0>>,
     brake |-> FALSE, flaps |-> 0, gear |-> FALSE],
    [pitch |-> 1, roll |-> 1, yaw |-> -1, throttles |-> <<100, 0, 0, 0>>,
     brake |-> FALSE, flaps |-> 1, gear |-> TRUE],
    [pitch |-> 0, roll |-> 0, yaw |-> 0, throttles |-> FullThrottles,
     brake |-> TRUE, flaps |-> 0, gear |-> TRUE] }

\* The largest throttle percentage (setAllThrottles clamps to it).
MaxThrottle == 100

\* Zero throttle and centred stick, with every gear, flap and brake setting.
IdleInputs ==
  { [pitch |-> 0, roll |-> 0, yaw |-> 0, throttles |-> <<0, 0, 0, 0>>,
     brake |-> b, flaps |-> fl, gear |-> g] :
    b \in BOOLEAN, fl \in 0..2, g \in BOOLEAN }

\* Full throttle and centred stick, brake released, as one entry or one per engine
\* slot, with every gear and flap setting.
TakeoffInputs ==
  { [pitch |-> 0, roll |-> 0, yaw |-> 0, throttles |-> th,
     brake |-> FALSE, flaps |-> fl, gear |-> g] :
    th \in {<<MaxThrottle>>, FullThrottles}, fl \in 0..2, g \in BOOLEAN }

\* Throttle arrays around one value t: a single entry, one engine of two running
\* (short, and padded to the four slots of App), and a mixed array.
ThrottleShapes(t) ==
  { <<t>>, <<t, 0>>, <<0, t>>, <<t, 0, 0, 0>>, <<0, t, 0, 0>>,
    <<t, MaxThrottle - t, t, MaxThrottle>> }

YawInputs ==
  { [pitch |-> 0, roll |-> 0, yaw |-> y, throttles |-> th,
     brake |-> FALSE, flaps |-> 0, gear |-> TRUE] :
    y \in {-1, 0, 1}, th \in UNION {ThrottleShapes(t) : t \in 0..MaxThrottle} }

\* ------------------------------------------------------------------------
\* Initial state and actions
\* ------------------------------------------------------------------------

NoLocals ==
  [totalThrustPercent |-> 0, avgThrottle |-> 0, yawMoment |-> 0, thrustVal |-> 0,
   thrustVector |-> ZeroVec,
   dragVal |-> 0,
   dragVector |-> ZeroVec, isOnGround |-> TRUE, controlAuthority |-> 0,
   pitchAmt |-> 0, rollAmt |-> 0, yawAmt |-> 0]

\* The Plane as its mount effect leaves it: on the runway, at rest, level.
PlaneInit ==
  /\ position = <<0, GroundY, 0>>
  /\ quaternion = IdentityQuat
  /\ velocity = ZeroVec
  /\ speed = 0
  /\ gearPos = SCALE
  /\ locals = NoLocals
  /\ inputs = [position |-> position, quaternion |-> quaternion, velocity |-> velocity,
               config |-> config, controls |-> controls]
  /\ ticks = 0
  /\ everAirborne = FALSE
  /\ showHangar = TRUE
  /\ events = 0
  /\ cameraMode = 0
  /\ resetKey = 0
  /\ atcMessages = <<>>
  /\ timers = <<>>
  /\ now = 0
  /\ keyEvents = 0

Init ==
  /\ config \in Fleet
  /\ controls = InitialControls
  /\ flightData = InitialFlightData
  /\ delta = 0
  /\ PlaneInit

\* App.setControls: a key or a button changes the controls.
SetControls(c) ==
  /\ controls' = c
  /\ UNCHANGED <<config, flightData, position, quaternion, velocity, speed, gearPos,
                 showHangar, events, delta, locals, inputs, ticks, everAirborne>>
  /\ UNCHANGED <<cameraMode, resetKey, atc, keyEvents>>

\* Plane.useFrame with frame time d (the Group ref is set once the Plane is
\* mounted, so the early return is not taken). The frame is computed once and
\* bound to f.
Tick(d) ==
  /\ Length(velocity) <= ToFix(MaxVel)
  /\ \E f \in {Frame(position, quaternion, velocity, config, controls, d)} :
        /\ gearPos' = GearStep(gearPos, controls, d)
        /\ position' = f.position
        /\ quaternion' = f.quaternion
        /\ velocity' = f.velocity
        /\ speed' = f.speed
        /\ flightData' = Telemetry(f, controls)
        /\ delta' = d
        /\ locals' = [n \in DOMAIN NoLocals |-> f[n]]
        /\ inputs' = [position |-> position, quaternion |-> quaternion,
                      velocity |-> velocity, config |-> config, controls |-> controls]
        /\ ticks' = ticks + 1
        /\ everAirborne' = (everAirborne \/ f.position[2] > GroundY)
        /\ UNCHANGED <<config, controls, showHangar, events>>
        /\ UNCHANGED <<cameraMode, resetKey, atc, keyEvents>>

Next ==
  /\ ticks < MaxTicks
  /\ \/ \E c \in InputSet : SetControls(c)
     \/ \E d \in DtSet : Tick(d)

Spec == Init /\ [][Next]_vars

\* Zero input: the controls stay idle, the frames come at any frame time.
NextIdle ==
  /\ ticks < MaxTicks
  /\ \/ \E c \in IdleInputs : SetControls(c)
     \/ \E d \in DtSet \cup {Dt120} : Tick(d)

SpecIdle == Init /\ [][NextIdle]_vars

\* The full-throttle run: an aircraft at rest, the controls set once, and a render
\* loop that delivers every frame at the same frame time.
InitTakeoff ==
  /\ config \in Fleet
  /\ controls \in TakeoffInputs
  /\ flightData = InitialFlightData
  /\ delta \in {Dt60, Dt120}
  /\ PlaneInit

NextTakeoff == ticks < ScenarioTicks /\ Tick(delta)

SpecTakeoff == InitTakeoff /\ [][NextTakeoff]_vars

\* Thrust aggregation: an aircraft at rest under each throttle array, frames at 1/60 s.
InitYaw ==
  /\ config \in Fleet
  /\ controls \in YawInputs
  /\ flightData = InitialFlightData
  /\ delta = 0
  /\ PlaneInit

NextYaw == ticks < MaxTicks /\ Tick(Dt60)

SpecYaw == InitYaw /\ [][NextYaw]_vars

\* ------------------------------------------------------------------------
\* App: keys, buttons, sliders, restart and aircraft selection
\* ------------------------------------------------------------------------

\* App events handled in the session specification.
MaxEvents == 4

\* Frames run in the session specification.
AppTicks == 2

\* The clamp without its upper limit: Math.max(0, v).
ClampThrottleNoCeiling(v) == Max(0, v)

\* Math.max(0, Math.min(100, v)).
ClampThrottle(v) == Max(0, Min(MaxThrottle, v))

\* setAllThrottles(d): every entry moved by d and clamped.
SetAllThrottles(c, d) ==
  [c EXCEPT !.throttles = [i \in DOMAIN @ |-> ClampThrottle(@[i] + d)]]

\* handleThrottleChange(index, value), index 0-based: the entry is replaced by
\* the clamped value if index < length. A negative index passes the test but
\* names no element of the copy, so the entries stay as they are.
HandleThrottleChange(c, index, value) ==
  IF index < Len(c.throttles) /\ index >= 0
  THEN [c EXCEPT !.throttles[index + 1] = ClampThrottle(value)]
  ELSE c

\* The flap cycle with a fourth notch: (c.flaps + 1) % 4.
CycleFlapsFourNotches(c) == [c EXCEPT !.flaps = (@ + 1) % 4]

\* (c.flaps + 1) % 3.
CycleFlaps(c) == [c EXCEPT !.flaps = (@ + 1) % 3]

ToggleGear(c) == [c EXCEPT !.gear = ~@]

\* The keys of handleKeyDown that change the controls.
ControlKeys ==
  {"ShiftLeft", "Space", "KeyZ", "KeyW", "KeyS", "KeyA", "KeyD", "KeyQ", "KeyE",
   "KeyG", "KeyF", "KeyB"}

\* The switch of handleKeyDown, for the keys that change the controls.
ControlsAfterKeyDown(c, code) ==
  CASE code = "ShiftLeft" -> SetAllThrottles(c, 2)
    [] code = "Space" -> [SetAllThrottles(c, 5) EXCEPT !.brake = FALSE]
    [] code = "KeyZ" -> SetAllThrottles(c, -5)
    [] code = "KeyW" -> [c EXCEPT !.pitch = 1]
    [] code = "KeyS" -> [c EXCEPT !.pitch = -1]
    [] code = "KeyA" -> [c EXCEPT !.roll = 1]
    [] code = "KeyD" -> [c EXCEPT !.roll = -1]
    [] code = "KeyQ" -> [c EXCEPT !.yaw = 1]
    [] code = "KeyE" -> [c EXCEPT !.yaw = -1]
    [] code = "KeyG" -> ToggleGear(c)
    [] code = "KeyF" -> CycleFlaps(c)
    [] code = "KeyB" -> [c EXCEPT !.brake = ~@]
    [] OTHER -> c

\* The switch of handleKeyUp: the released axis is centred.
ControlsAfterKeyUp(c, code) ==
  CASE code \in {"KeyW", "KeyS"} -> [c EXCEPT !.pitch = 0]
    [] code \in {"KeyA", "KeyD"} -> [c EXCEPT !.roll = 0]
    [] code \in {"KeyQ", "KeyE"} -> [c EXCEPT !.yaw = 0]
    [] OTHER -> c

\* The delays of the two setTimeout calls, in milliseconds: the reset message
\* after a restart, the reply after an ATC request.
RestartDelay == 500

ResponseDelay == 1500

\* An ATC message: sender and text (the text by a short name, with the altitude
\* the position reply quotes). The field key is history: the resetKey under
\* which the message was composed.
Message(sender, text, alt) == [sender |-> sender, text |-> text, alt |-> alt, key |-> resetKey]

\* handleRestart with a Plane that is not remounted: the App state goes back,
\* the physical state stays.
RestartEffectsKeepPlane ==
  /\ controls' = InitialControls
  /\ flightData' = InitialFlightData
  /\ UNCHANGED <<position, quaternion, velocity, speed, gearPos, locals>>
  /\ UNCHANGED <<config, delta, inputs, ticks, everAirborne>>
  /\ resetKey' = resetKey + 1
  /\ atcMessages' = <<>>
  /\ timers' = Append(timers, [due |-> now + RestartDelay,
                               msg |-> Message("ATC", "reset", 0)])
  /\ UNCHANGED <<cameraMode, now>>

\* handleRestart: flightData and controls back to their initial values, the
\* ATC log emptied, the reset message set to come RestartDelay later, and
\* resetKey incremented, which remounts the Plane (fresh refs and gear state,
\* then the mount effect).
RestartEffects ==
  /\ controls' = InitialControls
  /\ flightData' = InitialFlightData
  /\ position' = <<0, GroundY, 0>>
  /\ quaternion' = IdentityQuat
  /\ velocity' = ZeroVec
  /\ speed' = 0
  /\ gearPos' = SCALE
  /\ locals' = NoLocals
  /\ UNCHANGED <<config, delta, inputs, ticks, everAirborne>>
  /\ resetKey' = resetKey + 1
  /\ atcMessages' = <<>>
  /\ timers' = Append(timers, [due |-> now + RestartDelay,
                               msg |-> Message("ATC", "reset", 0)])
  /\ UNCHANGED <<cameraMode, now>>

\* The Restart button of Controls.
HandleRestart ==
  /\ events' = events + 1
  /\ RestartEffects
  /\ UNCHANGED <<showHangar, keyEvents>>

\* The TAKEOFF button of the hangar overlay.
StartFlight ==
  /\ showHangar
  /\ events' = events + 1
  /\ showHangar' = FALSE
  /\ RestartEffects
  /\ UNCHANGED keyEvents

\* The hangar button of Controls.
OpenHangar ==
  /\ events' = events + 1
  /\ showHangar' = TRUE
  /\ UNCHANGED <<config, controls, flightData, position, quaternion, velocity, speed,
                 gearPos, delta, locals, inputs, ticks, everAirborne>>
  /\ UNCHANGED <<cameraMode, resetKey, atc, keyEvents>>

\* A click on aircraft i of the hangar overlay. The Plane stays mounted; its
\* effect on [config.id] puts position, orientation and velocity back when the
\* id changes.
SelectAircraft(i) ==
  /\ showHangar
  /\ events' = events + 1
  /\ config' = AIRCRAFT_FLEET[i]
  /\ IF AIRCRAFT_FLEET[i].id # config.id
     THEN /\ position' = <<0, GroundY, 0>>
          /\ quaternion' = IdentityQuat
          /\ velocity' = ZeroVec
     ELSE UNCHANGED <<position, quaternion, velocity>>
  /\ UNCHANGED <<controls, flightData, speed, gearPos, showHangar, delta, locals, inputs, ticks,
                 everAirborne>>
  /\ UNCHANGED <<cameraMode, resetKey, atc, keyEvents>>

\* An event that only changes the controls, to c.
ControlEvent(c) ==
  /\ events' = events + 1
  /\ controls' = c
  /\ UNCHANGED <<config, flightData, position, quaternion, velocity, speed, gearPos,
                 showHangar, delta, locals, inputs, ticks, everAirborne>>
  /\ UNCHANGED <<resetKey, atc>>

\* A keyboard event that its handler drops at the showHangar test.
KeyIgnored ==
  /\ events' = events + 1
  /\ UNCHANGED <<config, controls, flightData, position, quaternion, velocity, speed,
                 gearPos, showHangar, delta, locals, inputs, ticks, everAirborne>>
  /\ UNCHANGED <<cameraMode, resetKey, atc>>

\* KeyC of handleKeyDown: the next of the three camera modes.
CameraAfterKeyDown(mode, code) == IF code = "KeyC" THEN (mode + 1) % 3 ELSE mode

\* handleKeyDown without the showHangar test.
KeyDownIgnoresHangar(code) ==
  /\ keyEvents' = keyEvents + 1
  /\ IF code = "KeyR"
     THEN events' = events + 1 /\ RestartEffects /\ UNCHANGED showHangar
     ELSE /\ ControlEvent(ControlsAfterKeyDown(controls, code))
          /\ cameraMode' = CameraAfterKeyDown(cameraMode, code)

\* handleKeyDown: it returns at once while the hangar is open; KeyR restarts,
\* KeyC changes the camera, the other keys change the controls.
KeyDown(code) ==
  /\ keyEvents' = keyEvents + 1
  /\ IF showHangar THEN KeyIgnored
     ELSE IF code = "KeyR"
     THEN events' = events + 1 /\ RestartEffects /\ UNCHANGED showHangar
     ELSE /\ ControlEvent(ControlsAfterKeyDown(controls, code))
          /\ cameraMode' = CameraAfterKeyDown(cameraMode, code)

\* handleKeyUp: it returns at once while the hangar is open.
KeyUp(code) ==
  /\ keyEvents' = keyEvents + 1
  /\ IF showHangar THEN KeyIgnored
     ELSE ControlEvent(ControlsAfterKeyUp(controls, code)) /\ UNCHANGED cameraMode

\* An engine slider of Controls.
ThrottleSlider(index, value) ==
  /\ ControlEvent(HandleThrottleChange(controls, index, value))
  /\ UNCHANGED <<cameraMode, keyEvents>>

\* The gear and flaps buttons of Controls.
GearButton == ControlEvent(ToggleGear(controls)) /\ UNCHANGED <<cameraMode, keyEvents>>

FlapsButton == ControlEvent(CycleFlaps(controls)) /\ UNCHANGED <<cameraMode, keyEvents>>

\* Slider indices (one below and one past the array included) and slider values
\* (below 0 and above 100 included).
SliderIndices == {-1, 0, 3, 4}

SliderValues == {-10, 37, 150}

\* The session starts in the hangar with the first aircraft selected.
InitApp ==
  /\ config = AIRCRAFT_FLEET[1]
  /\ controls = InitialControls
  /\ flightData = InitialFlightData
  /\ delta = 0
  /\ PlaneInit

NextApp ==
  \/ /\ events < MaxEvents
     /\ \/ HandleRestart
        \/ StartFlight
        \/ OpenHangar
        \/ \E i \in DOMAIN AIRCRAFT_FLEET : SelectAircraft(i)
        \/ \E code \in ControlKeys \cup {"KeyR"} : KeyDown(code)
        \/ \E code \in ControlKeys : KeyUp(code)
        \/ \E index \in SliderIndices, value \in SliderValues : ThrottleSlider(index, value)
        \/ GearButton
        \/ FlapsButton
  \/ /\ ticks < AppTicks
     /\ \E d \in {Dt60, ToFix(1)} : Tick(d)

SpecApp == InitApp /\ [][NextApp]_vars

\* ------------------------------------------------------------------------
\* Controls: the stall warning, derived from the telemetry
\* ------------------------------------------------------------------------

\* The speed below which, and the altitude above which, Controls warns.
StallWarnSpeed == 5000

StallWarnAltitude == 20000

\* isStalling without the altitude test.
IsStallingAnyAltitude(fd) == fd.velocity < StallWarnSpeed

\* isStalling: flightData.velocity < 0.5 && flightData.altitude > 2; the STALL
\* WARNING element is rendered exactly when it is true.
IsStalling(fd) == fd.velocity < StallWarnSpeed /\ fd.altitude > StallWarnAltitude

\* Telemetry speeds and altitudes around the two thresholds, the runway altitude
\* and the initial altitude 0 included.
SpeedSamples == {0, 4999, 5000, 5001, 10860, 30000}

AltitudeSamples == {0, GroundY, 19999, 20000, 20001, 50000}

TelemetrySamples ==
  { [InitialFlightData EXCEPT !.velocity = v, !.altitude = a, !.position = <<0, a, 0>>] :
    v \in SpeedSamples, a \in AltitudeSamples }

\* App.handleUpdate: the telemetry of a frame becomes the flightData that
\* Controls renders.
HandleUpdate(data) ==
  /\ flightData' = data
  /\ UNCHANGED <<config, controls, position, quaternion, velocity, speed, gearPos,
                 showHangar, events, delta, locals, inputs, ticks, everAirborne>>
  /\ UNCHANGED <<cameraMode, resetKey, atc, keyEvents>>

NextTelemetry == \E data \in TelemetrySamples : HandleUpdate(data)

SpecTelemetry == Init /\ [][NextTelemetry]_vars

\* ------------------------------------------------------------------------
\* App: the ATC log and its timers
\* ------------------------------------------------------------------------

\* Events handled in the ATC session specification.
MaxSessionEvents == 3

\* The clock of the ATC session specification stops at MaxTime milliseconds and
\* moves in steps of at most TimeStep.
MaxTime == 2000

TimeStep == 500

\* The entries of the log that addATCMessage keeps: prev.slice(-50).
Slice50(log) == IF Len(log) <= 50 THEN log ELSE SubSeq(log, Len(log) - 49, Len(log))

\* addATCMessage: the message goes to the end of the last 50 entries.
AddATCMessage(log, msg) == Append(Slice50(log), msg)

\* Math.round of a fixed-point number: the nearest whole number, halves upward.
MathRound(x) == (x + SCALE \div 2) \div SCALE

RequestTypes == {"takeoff", "landing", "position", "emergency"}

\* The switch of handleATCRequest: the reply to a request of the type, composed
\* from the flightData of the moment of the request.
AtcResponse(type, fd) ==
  CASE type = "takeoff" ->
         IF fd.altitude < ToFix(5) /\ fd.velocity < ToFix(1)
         THEN Message("ATC", "cleared for takeoff", 0)
         ELSE Message("ATC", "already airborne", 0)
    [] type = "landing" -> Message("ATC", "cleared to land", 0)
    [] type = "position" -> Message("ATC", "radar contact", MathRound(fd.altitude * 10))
    [] type = "emergency" -> Message("ATC", "emergency declared", 0)

\* handleATCRequest: the pilot's message is logged at once, the reply is set to
\* come ResponseDelay later.
HandleATCRequest(type) ==
  /\ events' = events + 1
  /\ atcMessages' = AddATCMessage(atcMessages, Message("Pilot", type, 0))
  /\ timers' = Append(timers, [due |-> now + ResponseDelay, msg |-> AtcResponse(type, flightData)])
  /\ UNCHANGED <<config, controls, flightData, position, quaternion, velocity, speed,
                 gearPos, showHangar, delta, locals, inputs, ticks, everAirborne>>
  /\ UNCHANGED <<cameraMode, resetKey, now, keyEvents>>

\* The timers that are due, and the one the event loop runs first: the earliest
\* due time, and among equal due times the one set first.
DueTimers == {i \in DOMAIN timers : timers[i].due <= now}

FirstDue ==
  CHOOSE i \in DueTimers :
    \A j \in DueTimers : timers[i].due < timers[j].due
                           \/ (timers[i].due = timers[j].due /\ i <= j)

\* A setTimeout callback runs: its message is added to the log.
TimerFires ==
  /\ DueTimers # {}
  /\ atcMessages' = AddATCMessage(atcMessages, timers[FirstDue].msg)
  /\ timers' = [i \in 1..(Len(timers) - 1) |->
                  IF i < FirstDue THEN timers[i] ELSE timers[i + 1]]
  /\ UNCHANGED <<config, controls, flightData, position, quaternion, velocity, speed,
                 gearPos, showHangar, events, delta, locals, inputs, ticks, everAirborne>>
  /\ UNCHANGED <<cameraMode, resetKey, now, keyEvents>>

\* Time passes, up to the next due time, while no callback is due.
TimePasses ==
  /\ DueTimers = {}
  /\ now < MaxTime
  /\ \E t \in {now + TimeStep} \cup {timers[i].due : i \in DOMAIN timers} :
       /\ t > now
       /\ t <= now + TimeStep
       /\ now' = t
  /\ UNCHANGED <<config, controls, flightData, position, quaternion, velocity, speed,
                 gearPos, showHangar, events, delta, locals, inputs, ticks, everAirborne>>
  /\ UNCHANGED <<cameraMode, resetKey, atcMessages, timers, keyEvents>>

\* The keys of the ATC session: one key of each kind of handleKeyDown.
SessionKeys == {"KeyR", "KeyC", "KeyW", "Space"}

\* The ATC session: restarts, the hangar, keys and ATC requests, one frame, and
\* the timers.
NextSession ==
  \/ /\ events < MaxSessionEvents
     /\ \/ HandleRestart
        \/ StartFlight
        \/ OpenHangar
        \/ \E code \in SessionKeys : KeyDown(code)
        \/ \E code \in SessionKeys : KeyUp(code)
        \/ \E type \in RequestTypes : HandleATCRequest(type)
  \/ ticks < 1 /\ Tick(Dt60)
  \/ TimerFires
  \/ TimePasses

SpecSession == InitApp /\ [][NextSession]_vars

\* ------------------------------------------------------------------------
\* Properties
\* ------------------------------------------------------------------------

\* A step that runs one frame.
IsTick == ticks' = ticks + 1

\* C1: a frame with frame time 0 leaves position, orientation and velocity
\* unchanged, from every reachable flight state and under every control input.
C1_ZeroDtIdempotent ==
  [][(IsTick /\ delta' = 0) =>
       (position' = position /\ quaternion' = quaternion /\ velocity' = velocity)]_vars

\* The scenario of C2: the unit profile with one engine, full throttle on the one
\* throttle entry, centred stick, gear down, flaps up, brake released, 1/60 s frames.
UnitProfileScenario ==
  /\ config.thrustMult = SCALE /\ config.liftMult = SCALE /\ config.dragMult = SCALE
  /\ config.turnSpeedMult = SCALE /\ config.maxSpeedMult = SCALE
  /\ config.engineCount = 1
  /\ controls = [pitch |-> 0, roll |-> 0, yaw |-> 0, throttles |-> <<MaxThrottle>>,
                 brake |-> FALSE, flaps |-> 0, gear |-> TRUE]
  /\ delta = Dt60

\* C2: in the unit-profile scenario, started at rest on the ground, position.y
\* has exceeded 0.6 at some frame by the time frame 300 has run.
C2_TakeoffBeforeTick300 ==
  (UnitProfileScenario /\ ticks = ScenarioTicks) => everAirborne

\* C3: the state left at the end of a frame never has position.y below 0.6, the
\* frame in which a descending airborne aircraft reaches the ground included.
C3_NeverBelowGround == ticks > 0 => position[2] >= GroundY

\* C4: from rest on the ground, while every frame has zero throttle on all engines
\* and a centred stick (any gear, flaps and brake setting, any frame time >= 0),
\* velocity is zero and position.y is 0.6 after any number of frames.
C4_ZeroInputEquilibrium == velocity = ZeroVec /\ position[2] = GroundY

\* Three idle frames have run, the last a long one with the brake released, full
\* flaps and the gear up.
C4_Witness ==
  /\ ticks = MaxTicks
  /\ delta = ToFix(5)
  /\ ~controls.brake /\ controls.flaps = 2 /\ ~controls.gear
  /\ controls.throttles = <<0, 0, 0, 0>>
  /\ locals.isOnGround

\* Full throttle on every engine, brake released, centred stick.
FullThrottleInput ==
  /\ Len(controls.throttles) >= config.engineCount
  /\ \A i \in 1..config.engineCount : controls.throttles[i] = MaxThrottle
  /\ ~controls.brake
  /\ controls.pitch = 0 /\ controls.roll = 0 /\ controls.yaw = 0

\* C5: under constant full throttle from rest on the ground, the magnitude of
\* velocity does not decrease from one frame to the next while the drag of the
\* frame is still below its thrust (terminal speed not yet reached).
C5_SpeedNonDecreasing ==
  [][(IsTick /\ FullThrottleInput /\ locals'.dragVal < locals'.thrustVal) =>
       Length(velocity') >= Length(velocity)]_vars

\* The tolerance of the unit-magnitude check on |q|^2, in fixed-point units. A
\* quaternion normalized at the end of the frame is within 2 units, whatever the
\* rounding of the frame (four components, each rounded by half a unit).
QuatTol == 10

\* C6: every frame leaves the orientation renormalized: after any sequence of
\* pitch, roll and yaw inputs over any number of frames the orientation
\* quaternion has magnitude 1.
C6_OrientationUnit == Abs(QNormSq(quaternion) - SCALE) <= QuatTol

\* C7: the velocity integration of a frame multiplies the thrust contribution and
\* the drag contribution by the frame time, so the velocity change due to drag
\* (and due to thrust) in one frame is the vector times delta.
C7_ThrustAndDragScaledByDt ==
  [][IsTick =>
       /\ AddForces(velocity, locals'.thrustVector, ZeroVec, ZeroVec, ZeroVec, delta')
            = VAdd(velocity, VScale(locals'.thrustVector, delta'))
       /\ AddForces(velocity, ZeroVec, ZeroVec, ZeroVec, locals'.dragVector, delta')
            = VAdd(velocity, VScale(locals'.dragVector, delta'))]_vars

\* C8: the telemetry a frame emits reads back the state that frame produced
\* (position and altitude the new position, attitude from the new orientation,
\* speed the magnitude of the new velocity) and echoes the frame's controls.
C8_TelemetryReadsBack ==
  [][IsTick =>
       /\ flightData'.position = position'
       /\ flightData'.altitude = position'[2]
       /\ flightData'.rotation = EulerFromQuaternion(quaternion')
       /\ flightData'.velocity = Length(velocity')
       /\ flightData'.throttles = controls.throttles
       /\ flightData'.isGearDown = controls.gear
       /\ flightData'.flapsValue = controls.flaps
       /\ flightData'.brake = controls.brake
       /\ flightData'.pitchInput = controls.pitch
       /\ flightData'.rollInput = controls.roll
       /\ flightData'.yawInput = controls.yaw]_vars

\* The throttle array with its first two entries exchanged.
SwapFirstTwo(th) == [i \in DOMAIN th |-> IF i = 1 THEN th[2] ELSE IF i = 2 THEN th[1] ELSE th[i]]

\* One engine of a twin at throttle T, the other at 0.
OneOfTwoEngines ==
  /\ config.engineCount = 2
  /\ Len(controls.throttles) >= 2
  /\ controls.throttles[1] = 0 \/ controls.throttles[2] = 0

\* C9: for engineCount = 2 and every throttle T in 0..100, the yaw moment of the
\* frame under throttles (T, 0) is equal in magnitude and opposite in sign to the
\* yaw moment under throttles (0, T).
C9_SymmetricDifferentialThrust ==
  (ticks > 0 /\ OneOfTwoEngines) =>
     /\ locals.yawMoment = -YawMoment(SwapFirstTwo(controls.throttles), config.engineCount)
     /\ Abs(locals.yawMoment) = ToFix(controls.throttles[1] + controls.throttles[2])

\* A frame of the twin with the left engine alone at full throttle has run.
C9_Witness ==
  /\ ticks > 0
  /\ config.engineCount = 2
  /\ controls.throttles = <<MaxThrottle, 0>>
  /\ locals.yawMoment = -ToFix(MaxThrottle)

\* C10: for engineCount = 1 the yaw moment of a frame is 0 for every throttle
\* array with values in 0..100, longer arrays included, so with yaw input 0 the
\* yaw rotation of the frame is zero.
C10_SingleEngineYawImmunity ==
  (ticks > 0 /\ config.engineCount = 1) =>
     /\ locals.yawMoment = 0
     /\ controls.yaw = 0 => (locals.yawAmt = 0 /\ quaternion = IdentityQuat)

\* A frame of a single-engine aircraft has run under a four-entry throttle array
\* with different values in the slots and the rudder centred.
C10_Witness ==
  /\ ticks > 0
  /\ config.engineCount = 1
  /\ Len(controls.throttles) = 4
  /\ controls.throttles[1] > 0
  /\ controls.throttles[2] > controls.throttles[1]
  /\ controls.yaw = 0
  /\ locals.totalThrustPercent = ToFix(controls.throttles[1])

\* d is a strictly negative multiple of v, to the rounding of the components of d
\* (one unit each): d.v < 0 and every component of d x v is within |v_i| + |v_j|.
Antiparallel(d, v) ==
  /\ d[1] * v[1] + d[2] * v[2] + d[3] * v[3] < 0
  /\ \A i, j \in 1..3 : Abs(d[i] * v[j] - d[j] * v[i]) <= Abs(v[i]) + Abs(v[j])

\* C11: in every frame whose starting velocity is nonzero, the drag vector added
\* to velocity is a strictly negative multiple of the starting velocity, for
\* every gear, flaps and brake setting (dragVal at least one fixed-point unit).
C11_DragAntiparallel ==
  [][(IsTick /\ velocity # ZeroVec /\ locals'.dragVal > 0) =>
       Antiparallel(locals'.dragVector, velocity)]_vars

\* A frame has applied drag to a velocity off the coordinate axes, with the gear
\* up and the flaps retracted.
C11_Witness ==
  /\ ticks > 0
  /\ ~controls.gear /\ controls.flaps = 0
  /\ locals.dragVal > 0
  /\ Cardinality({i \in 1..3 : locals.dragVector[i] # 0}) >= 2

\* C12: in a frame whose starting velocity is the zero vector, the drag vector
\* added to velocity is the zero vector, also when the gear is down or the flaps
\* are extended and dragVal is positive.
C12_ZeroVelocityZeroDrag ==
  [][(IsTick /\ velocity = ZeroVec) => locals'.dragVector = ZeroVec]_vars

\* The first frame from rest has run with full flaps and the gear down: dragVal
\* is positive, the drag vector is zero and the velocity is the thrust gain alone.
C12_Witness ==
  /\ ticks = 1
  /\ controls.flaps = 2 /\ controls.gear
  /\ locals.dragVal >= GearDrag + 2 * FlapDrag
  /\ locals.dragVector = ZeroVec
  /\ velocity # ZeroVec

\* The sum of the first k entries of a throttle array.
RECURSIVE SumFirst(_, _)
SumFirst(th, k) == IF k = 0 THEN 0 ELSE SumFirst(th, k - 1) + th[k]

\* The throttle array padded with zeros to k entries.
PadZeros(th, k) == [i \in 1..Max(k, Len(th)) |-> IF i <= Len(th) THEN th[i] ELSE 0]

\* C13: totalThrustPercent is the sum of throttles[i] over exactly the indices
\* i < min(engineCount, len(throttles)), avgThrottle is that sum over
\* max(1, engineCount), and a throttle array shorter than engineCount gives the
\* same result as the array padded with zeros.
C13_ThrustAggregation ==
  ticks > 0 =>
    LET th == controls.throttles
        n  == config.engineCount
        total == ToFix(SumFirst(th, Min(n, Len(th))))
    IN  /\ locals.totalThrustPercent = total
        /\ locals.avgThrottle = Div(total, ToFix(Max(1, n)))
        /\ TotalThrustPercent(PadZeros(th, n), n) = locals.totalThrustPercent
        /\ AvgThrottle(PadZeros(th, n), n) = locals.avgThrottle

\* A frame has run with more throttle entries than engines, the extra entries
\* nonzero.
C13_Witness ==
  /\ ticks > 0
  /\ config.engineCount = 2
  /\ Len(controls.throttles) = 4
  /\ controls.throttles[3] > 0 /\ controls.throttles[4] > 0
  /\ locals.totalThrustPercent = ToFix(controls.throttles[1] + controls.throttles[2])

\* A step that restarts the session, or that selects a different aircraft.
RestartOrAircraftChange ==
  \/ HandleRestart
  \/ StartFlight
  \/ ~showHangar /\ KeyDown("KeyR")
  \/ \E i \in DOMAIN AIRCRAFT_FLEET : SelectAircraft(i) /\ config' # config

\* C14: after a restart, and after a change of the selected aircraft to a
\* different one, the physical state the next frame starts from is position
\* (0, 0.6, 0), zero velocity and identity orientation, whatever it was before.
C14_RestartResetsPhysicalState ==
  [][RestartOrAircraftChange =>
       (position' = <<0, GroundY, 0>> /\ velocity' = ZeroVec
          /\ quaternion' = IdentityQuat)]_vars

\* Another aircraft has been selected after frames that moved the first one: the
\* cached speed of the mounted Plane is still positive, its velocity is zero.
C14_Witness ==
  /\ config # AIRCRAFT_FLEET[1]
  /\ ticks = AppTicks
  /\ speed > 0
  /\ velocity = ZeroVec
  /\ position = <<0, GroundY, 0>>
  /\ quaternion = IdentityQuat

C16_ThrottlesInRange ==
  /\ Len(controls.throttles) = 4
  /\ \A i \in 1..Len(controls.throttles) :
       controls.throttles[i] >= 0 /\ controls.throttles[i] <= MaxThrottle
  /\ \A a \in Fleet : Len(controls.throttles) >= a.engineCount

\* The master throttle was raised once, one slider was dragged above 100 and
\* another below 0.
C16_Witness ==
  /\ events = MaxEvents
  /\ controls.throttles = <<MaxThrottle, 5, 5, 0>>

\* The notch after notch n in the cycle 0 -> 1 -> 2 -> 0.
NextNotch(n) == CASE n = 0 -> 1 [] n = 1 -> 2 [] n = 2 -> 0

\* C17: after any sequence of flap-cycle actions (the F key with the hangar
\* closed, or the flaps button) and restarts the flaps value is 0, 1 or 2, and each cycle action advances it
\* 0 -> 1 -> 2 -> 0.
C17_FlapsCycle ==
  /\ controls.flaps \in {0, 1, 2}
  /\ [][/\ controls'.flaps \in {0, 1, 2}
        /\ ((~showHangar /\ KeyDown("KeyF")) \/ FlapsButton) =>
             controls'.flaps = NextNotch(controls.flaps)]_vars

\* Two cycle actions since the flight started: full flaps.
C17_Witness ==
  /\ ~showHangar
  /\ controls.flaps = 2

\* C18: the stall warning is shown exactly when the telemetry speed is below 0.5
\* and the telemetry altitude is above 2; it is never shown at the runway
\* altitude 0.6, whatever the speed.
C18_StallWarning ==
  /\ IsStalling(flightData) <=>
       (flightData.velocity < SCALE \div 2 /\ flightData.altitude > ToFix(2))
  /\ flightData.altitude = GroundY => ~IsStalling(flightData)

\* Telemetry just inside both thresholds: the warning is shown.
C18_Witness ==
  /\ flightData.velocity = 4999
  /\ flightData.altitude = 20001
  /\ IsStalling(flightData)

\* C19: in a frame with the brake set and a starting position.y below 1.0 the
\* thrust added to velocity is zero for every throttle setting; in a frame with
\* the brake released, or starting at position.y >= 1.0, the thrust is
\* (avgThrottle / 100) * MAX_THRUST * thrustMult along the forward axis.
C19_BrakeCutsThrust ==
  ticks > 0 =>
    LET fwd      == ApplyQuaternion(<<0, 0, -SCALE>>, inputs.quaternion)
        expected == Mul(Mul(Div(locals.avgThrottle, ToFix(100)), MAX_THRUST),
                        inputs.config.thrustMult)
    IN  IF inputs.controls.brake /\ inputs.position[2] < ToFix(1)
        THEN locals.thrustVal = 0 /\ locals.thrustVector = ZeroVec
        ELSE locals.thrustVal = expected /\ locals.thrustVector = VScale(fwd, expected)

\* A frame has run with full throttle against the brake, started above 1.0: the
\* thrust was not cut.
C19_Witness ==
  /\ ticks > 0
  /\ inputs.controls.brake
  /\ inputs.position[2] >= ToFix(1)
  /\ locals.avgThrottle = ToFix(MaxThrottle)
  /\ locals.thrustVal > 0

\* The velocity of the latest frame after its four forces were added, recomputed
\* from the inputs of the frame.
VelocityAfterForces ==
  LET up == ApplyQuaternion(<<0, SCALE, 0>>, inputs.quaternion)
  IN  AddForces(inputs.velocity, locals.thrustVector, GravityVector(delta),
                LiftVector(up, speed, inputs.controls, inputs.config, delta),
                locals.dragVector, delta)

\* C20: a frame that starts with position.y <= 0.6 leaves no downward velocity
\* after the forces, pins position.y to 0.6 before the position integration and
\* multiplies the whole velocity by 0.995; a frame that starts with
\* position.y > 0.6 applies none of the three, even if it ends below 0.6.
C20_GroundClamp ==
  ticks > 0 =>
    LET v1  == VelocityAfterForces
        fwd == ApplyQuaternion(<<0, 0, -SCALE>>, inputs.quaternion)
    IN  IF inputs.position[2] <= ToFix(6) \div 10
        THEN /\ velocity = <<Mul(v1[1], 9950), Mul(Max(0, v1[2]), 9950), Mul(v1[3], 9950)>>
             /\ velocity[2] >= 0
             /\ position = IntegratePosition(<<inputs.position[1], ToFix(6) \div 10,
                                               inputs.position[3]>>, velocity, delta)
        ELSE /\ velocity = Stabilize(v1, fwd, speed, FALSE, delta)
             /\ position = IntegratePosition(inputs.position, velocity, delta)

\* A frame that started airborne has ended below the runway altitude, unclamped.
C20_Witness ==
  /\ ticks > 0
  /\ inputs.position[2] > GroundY
  /\ ~locals.isOnGround
  /\ position[2] < GroundY
  /\ velocity[2] < 0

\* C21: the control authority of a frame is min(speed / MIN_TAKEOFF_SPEED, 1.5) *
\* ROTATION_SPEED * turnSpeedMult; it never exceeds 1.5 * ROTATION_SPEED *
\* turnSpeedMult, and a frame that starts at zero velocity has authority zero and
\* turns the orientation by its yaw rotation only, whatever the pitch and roll inputs.
C21_ControlAuthority ==
  ticks > 0 =>
    LET cap == Mul(Mul((3 * SCALE) \div 2, (2 * SCALE) \div 100), inputs.config.turnSpeedMult)
        up  == ApplyQuaternion(<<0, SCALE, 0>>, inputs.quaternion)
    IN  /\ locals.controlAuthority =
             Mul(Mul(Min(Div(speed, (8 * SCALE) \div 10), (3 * SCALE) \div 2),
                     (2 * SCALE) \div 100), inputs.config.turnSpeedMult)
        /\ locals.controlAuthority <= cap
        /\ inputs.velocity = ZeroVec =>
             /\ locals.controlAuthority = 0
             /\ locals.pitchAmt = 0
             /\ locals.rollAmt = 0
             /\ quaternion = QMul(inputs.quaternion, SetFromAxisAngle(up, locals.yawAmt))

\* A frame has run from rest with the stick held in pitch and roll.
C21_Witness ==
  /\ ticks > 0
  /\ inputs.velocity = ZeroVec
  /\ inputs.controls.pitch # 0
  /\ inputs.controls.roll # 0

\* C22: with totalYaw = -yawInput + yawMoment * 0.0005, a frame that starts with
\* position.y <= 0.6 turns by the yaw angle totalYaw * 0.02 * dt * 60, whatever the
\* speed and turnSpeedMult are; a frame that starts above turns by
\* totalYaw * authority * 0.5 * dt * 60.
C22_YawRateSelection ==
  ticks > 0 =>
    LET totalYaw == ToFix(-inputs.controls.yaw) + Mul(locals.yawMoment, 5)
        rate     == IF inputs.position[2] <= (6 * SCALE) \div 10
                    THEN (2 * SCALE) \div 100
                    ELSE Mul(locals.controlAuthority, SCALE \div 2)
    IN  locals.yawAmt = Mul(Mul(totalYaw, rate), Mul(delta, ToFix(60)))

\* A frame has steered an aircraft that stood still on the ground.
C22_Witness ==
  /\ ticks > 0
  /\ inputs.position[2] <= GroundY
  /\ inputs.velocity = ZeroVec
  /\ locals.controlAuthority = 0
  /\ locals.yawAmt # 0

\* The incremental rotations of the latest frame, about the axes of the orientation
\* the frame started from.
PitchQuat == SetFromAxisAngle(ApplyQuaternion(<<SCALE, 0, 0>>, inputs.quaternion), locals.pitchAmt)

YawQuat == SetFromAxisAngle(ApplyQuaternion(<<0, SCALE, 0>>, inputs.quaternion), locals.yawAmt)

RollQuat == SetFromAxisAngle(ApplyQuaternion(<<0, 0, -SCALE>>, inputs.quaternion), locals.rollAmt)

\* C23: every frame multiplies the orientation it started from by the pitch
\* rotation, then the yaw rotation, then the roll rotation, each about the axis
\* (right, up, forward) of the orientation at the start of the frame.
C23_RotationOrder ==
  ticks > 0 => quaternion = QMul(QMul(QMul(inputs.quaternion, PitchQuat), YawQuat), RollQuat)

\* A frame has turned about all three axes, and another order of the same three
\* rotations would have left another orientation.
C23_Witness ==
  /\ ticks > 0
  /\ locals.pitchAmt # 0
  /\ locals.yawAmt # 0
  /\ locals.rollAmt # 0
  /\ quaternion # QMul(QMul(QMul(inputs.quaternion, RollQuat), YawQuat), PitchQuat)
  /\ quaternion # QMul(QMul(QMul(inputs.quaternion, YawQuat), PitchQuat), RollQuat)

\* C24: a frame that starts with position.y > 0.6 and has speed > 0.1 blends the
\* velocity toward forward * speed with the factor dt * 0.5; a frame that starts on
\* the ground, or has speed <= 0.1, leaves the velocity unblended.
C24_AutoLevelDamping ==
  ticks > 0 =>
    LET v1       == VelocityAfterForces
        fwd      == ApplyQuaternion(<<0, 0, -SCALE>>, inputs.quaternion)
        airborne == inputs.position[2] > (6 * SCALE) \div 10
        v2       == IF airborne THEN v1
                    ELSE <<Mul(v1[1], 9950), Mul(Max(0, v1[2]), 9950), Mul(v1[3], 9950)>>
    IN  IF airborne /\ speed > SCALE \div 10
        THEN velocity = VLerp(v2, VScale(fwd, speed), Mul(delta, SCALE \div 2))
        ELSE velocity = v2

\* An airborne frame above speed 0.1 has blended the velocity: it differs from the
\* velocity the forces alone left.
C24_Witness ==
  /\ ticks > 0
  /\ inputs.position[2] > GroundY
  /\ speed > StabilityMinSpeed
  /\ delta > 0
  /\ velocity # VelocityAfterForces

\* The velocity the latest frame would have left, had it run from the same state
\* with the same inputs but the brake set to b.
VelocityWithBrake(b) ==
  Frame(inputs.position, inputs.quaternion, inputs.velocity, inputs.config,
        [inputs.controls EXCEPT !.brake = b], delta).velocity

\* C25: braking never makes the vehicle faster: for a frame that starts on the
\* ground with nonzero velocity and zero throttle, the speed the frame leaves with
\* the brake active is at most the speed it leaves with the brake released, the
\* other inputs being equal.
C25_BrakeNeverFaster ==
  ( /\ ticks > 0
    /\ inputs.position[2] <= GroundY
    /\ inputs.velocity # ZeroVec
    /\ \A i \in DOMAIN inputs.controls.throttles : inputs.controls.throttles[i] = 0 )
  => Length(VelocityWithBrake(TRUE)) <= Length(VelocityWithBrake(FALSE))

\* C26: drag alone never reverses the direction of motion: in every frame the
\* magnitude of the drag vector added to the velocity is at most the magnitude of
\* the velocity the frame started from.
C26_DragNeverReverses ==
  ticks > 0 => Length(locals.dragVector) <= Length(inputs.velocity)

\* C27: with every engine of a multi-engine aircraft at the same throttle, the
\* yaw moment the frame computes is 0: equal throttles never steer the vehicle.
C27_EqualThrottlesNoYaw ==
  ( /\ ticks > 0
    /\ inputs.config.engineCount >= 2
    /\ \A i \in DOMAIN inputs.controls.throttles :
         inputs.controls.throttles[i] = inputs.controls.throttles[1] )
  => DoubleIsZero(YawMomentDouble(inputs.controls.throttles, inputs.config.engineCount))

\* C28: while the hangar overlay is shown, no key-down and no key-up event
\* changes the control input or the camera mode or restarts the session.
C28_HangarBlocksKeys ==
  [][(keyEvents' # keyEvents /\ showHangar) =>
       UNCHANGED <<controls, cameraMode, resetKey, flightData, position, quaternion,
                   velocity, atcMessages, timers, showHangar>>]_vars

\* Keys have been pressed, all of them in the hangar, which has been open from
\* the start: the controls, the camera and the restart count are the initial ones.
C28_Witness ==
  /\ showHangar
  /\ keyEvents > 1
  /\ events = keyEvents
  /\ resetKey = 0
  /\ controls = InitialControls
  /\ cameraMode = 0

\* C29: once a restart has emptied the ATC log, the log never receives the ATC
\* reply to a request made before that restart.
C29_NoReplyFromBeforeRestart ==
  \A i \in DOMAIN atcMessages :
    (atcMessages[i].sender = "ATC" /\ atcMessages[i].text # "reset")
      => atcMessages[i].key = resetKey

====
